---- MODULE Spec2Model ----
(***************************************************************************)
(* A model of the CSV writer of src/writer.rs: the WriterBuilder with its  *)
(* setters and terminal operations, Writer::new, and Writer::write_field.  *)
(*                                                                         *)
(* src/writer.rs holds no write_record and no flush, and the field encoder *)
(* (csv_core) is outside it.  Those parts are modelled from the design     *)
(* document and are marked "design:" below; everything else is translated  *)
(* from the Rust source, with its line numbers.                            *)
(*                                                                         *)
(* The byte sink is an in-memory sink that accepts every write.            *)
(***************************************************************************)
EXTENDS Integers, Sequences, FiniteSets, TLC

(* ------------------------------ bounds --------------------------------- *)

\* Setter calls made on the builder in one behaviour.
MaxSetterCalls == 2

\* write_record / flush calls made on the writer in one behaviour.
MaxWriterCalls == 3

(* ------------------------------ bytes ---------------------------------- *)

\* b',' , the default delimiter (writer.rs:65)
COMMA == 44
\* b'"' , the default quote (writer.rs:125)
DQUOTE == 34
\* \r and \n of Terminator::CRLF (writer.rs:101)
CR == 13
LF == 10

\* Values the setters are called with.
DelimiterArgs == {59, DQUOTE}        \* b';' and the default quote byte
QuoteArgs == {39}                    \* b'\''
EscapeArgs == {92}                   \* b'\\'
CapacityArgs == {0, 4}
QuoteStyles == {"Always", "Necessary", "NonNumeric", "Never"}
CRLF == [kind |-> "CRLF"]
TerminatorAny(b) == [kind |-> "Any", byte |-> b]
TerminatorArgs == {CRLF, TerminatorAny(LF)}

\* Records handed to write_record: 0, 1, 2, 3 and 4 fields, among them the
\* empty field, and fields holding the delimiter, the quote and a line feed.
Records ==
  { << >>,
    << << >> >>,
    << <<97>>, <<DQUOTE>> >>,
    << <<49>>, << >>, <<COMMA>> >>,
    << <<97>>, <<LF>>, <<97>>, <<97>> >> }

\* Fields handed to write_field.
Fields == { << >>, <<97>> }

(* ------------------------------ options -------------------------------- *)

None == << >>
Some(x) == <<x>>

NoWriter == [none |-> TRUE]

VARIABLES
  builder,    \* the WriterBuilder (writer.rs:19-24)
  writer,     \* the Writer built from it (writer.rs:160-171), or NoWriter
  sink,       \* the byte sink: the sequence of chunks it was handed
  pc,         \* "running", or "panicked" once unimplemented!() was reached
  built,      \* history: the builder as it was when the writer was built
  firstCount, \* history: field count of the first successful write_record
  last,       \* history: the last operation, its result, the writer before it
  nSetters,   \* history: setter calls so far
  nCalls      \* history: write_record / flush calls so far

vars == <<builder, writer, sink, pc, built, firstCount, last, nSetters, nCalls>>

(* ------------------------- WriterBuilder ------------------------------- *)

\* design: CoreWriterBuilder::default(), the formatting options' defaults.
CoreWriterBuilderDefault ==
  [ delimiter    |-> COMMA,
    quote        |-> DQUOTE,
    escape       |-> None,
    double_quote |-> TRUE,
    quote_style  |-> "Necessary",
    terminator   |-> CRLF ]

\* A default builder whose capacity is 1 KiB: the mutant of Default.
DefaultSmallCapacity ==
  [ builder     |-> CoreWriterBuilderDefault,
    capacity    |-> 1 * (2^10),
    flexible    |-> FALSE,
    has_headers |-> TRUE ]

\* impl Default for WriterBuilder (writer.rs:26-35); WriterBuilder::new
\* (writer.rs:42-44) returns it.
Default ==
  [ builder     |-> CoreWriterBuilderDefault,
    capacity    |-> 8 * (2^10),
    flexible    |-> FALSE,
    has_headers |-> TRUE ]

\* The setters (writer.rs:66-156): each changes one option of the builder.
delimiter(b, d)       == [b EXCEPT !.builder.delimiter = d]
has_headers(b, yes)   == [b EXCEPT !.has_headers = yes]
flexible(b, yes)      == [b EXCEPT !.flexible = yes]
terminator(b, term)   == [b EXCEPT !.builder.terminator = term]
quote_style(b, style) == [b EXCEPT !.builder.quote_style = style]
quote(b, q)           == [b EXCEPT !.builder.quote = q]
escape(b, e)          == [b EXCEPT !.builder.escape = Some(e)]
double_quote(b, yes)  == [b EXCEPT !.builder.double_quote = yes]
buffer_capacity(b, c) == [b EXCEPT !.capacity = c]

\* design: the configurations the design document calls inconsistent.
Inconsistent(b) ==
  \/ (~b.builder.double_quote /\ b.builder.escape = None)
  \/ b.builder.quote = b.builder.delimiter

(* ----------------------------- Writer ---------------------------------- *)

\* Writer::new that takes the flexible flag negated: a mutant of WriterNew.
WriterNewFlexibleNegated(b) ==
  [ core     |-> b.builder,
    capacity |-> b.capacity,
    buf      |-> << >>,
    expected |-> None,
    state    |-> [ flexible       |-> ~b.flexible,
                   has_headers    |-> b.has_headers,
                   fields_written |-> 0 ] ]

\* Writer::new that takes has_headers from the default instead of the
\* builder: a mutant of WriterNew.
WriterNewHeadersFromDefault(b) ==
  [ core     |-> b.builder,
    capacity |-> b.capacity,
    buf      |-> << >>,
    expected |-> None,
    state    |-> [ flexible       |-> b.flexible,
                   has_headers    |-> TRUE,
                   fields_written |-> 0 ] ]

\* Writer::new that ignores the builder's capacity: a mutant of WriterNew.
WriterNewDefaultCapacity(b) ==
  [ core     |-> b.builder,
    capacity |-> 8 * (2^10),
    buf      |-> << >>,
    expected |-> None,
    state    |-> [ flexible       |-> b.flexible,
                   has_headers    |-> b.has_headers,
                   fields_written |-> 0 ] ]

\* Writer::new (writer.rs:174-184).  core is the built copy of the
\* formatting options, capacity and buf are the BufWriter's.  expected is
\* design: the expected field count of the design's WriterState.
WriterNew(b) ==
  [ core     |-> b.builder,
    capacity |-> b.capacity,
    buf      |-> << >>,
    expected |-> None,
    state    |-> [ flexible       |-> b.flexible,
                   has_headers    |-> b.has_headers,
                   fields_written |-> 0 ] ]

\* from_writer as the design document has it: a mutant of from_writer.
from_writer_validating(b) ==
  IF Inconsistent(b)
  THEN [result |-> "ConfigError", writer |-> NoWriter]
  ELSE [result |-> "Ok", writer |-> WriterNew(b)]

\* WriterBuilder::from_writer (writer.rs:59-61): returns Writer<W>, no Result.
from_writer(b) == [result |-> "Ok", writer |-> WriterNew(b)]

\* WriterBuilder::from_path (writer.rs:51-53): File::create(path)? comes
\* first; created tells whether it succeeded.
from_path(b, created) ==
  IF created
  THEN [result |-> "Ok", writer |-> WriterNew(b)]
  ELSE [result |-> "IoError", writer |-> NoWriter]

(* --------------------------- field encoder ----------------------------- *)

\* design: the bytes written to end a record.
TerminatorBytes(core) ==
  IF core.terminator.kind = "CRLF" THEN <<CR, LF>> ELSE <<core.terminator.byte>>

\* design: the bytes that make quoting necessary.
SpecialBytes(core) ==
  {core.delimiter, core.quote}
    \cup (IF core.terminator.kind = "CRLF" THEN {CR, LF} ELSE {core.terminator.byte})

Contains(field, bytes) == \E i \in 1..Len(field) : field[i] \in bytes

\* design: the minimal numeric grammar, as an automaton over the bytes:
\* optional sign, digits, optional decimal point, optional exponent.
Digits == 48..57
NumStep(st, c) ==
  CASE st = "start" /\ c \in {43, 45} -> "sign"
    [] st \in {"start", "sign", "int"} /\ c \in Digits -> "int"
    [] st \in {"start", "sign"} /\ c = 46 -> "dot"
    [] st = "int" /\ c = 46 -> "frac"
    [] st \in {"dot", "frac"} /\ c \in Digits -> "frac"
    [] st \in {"int", "frac"} /\ c \in {69, 101} -> "e"
    [] st = "e" /\ c \in {43, 45} -> "esign"
    [] st \in {"e", "esign", "exp"} /\ c \in Digits -> "exp"
    [] OTHER -> "bad"

RECURSIVE NumRun(_, _)
NumRun(st, field) ==
  IF field = << >> THEN st ELSE NumRun(NumStep(st, Head(field)), Tail(field))

IsNumeric(field) == NumRun("start", field) \in {"int", "frac", "exp"}

\* An empty sole field that QuoteStyle::Never leaves bare: the mutant of
\* QuoteSoleEmpty.
QuoteSoleEmptyUnlessNever(style) == style # "Never"

\* The note on quote_style (writer.rs:116-117): "regardless of this setting,
\* an empty field is quoted if it is the only field in a record".
QuoteSoleEmpty(style) == TRUE

\* design: whether a field is written quoted.
NeedsQuote(field, only, core) ==
  IF field = << >> /\ only
  THEN QuoteSoleEmpty(core.quote_style)
  ELSE CASE core.quote_style = "Always" -> TRUE
         [] core.quote_style = "Never" -> FALSE
         [] core.quote_style = "Necessary" -> Contains(field, SpecialBytes(core))
         [] core.quote_style = "NonNumeric" -> ~IsNumeric(field)

\* design: a quote byte inside a quoted field is doubled, or preceded by the
\* escape byte when double_quote is off (by nothing when no escape is set).
EscapedQuote(core) ==
  IF core.double_quote THEN <<core.quote, core.quote>> ELSE core.escape \o <<core.quote>>

RECURSIVE Escaped(_, _)
Escaped(field, core) ==
  IF field = << >> THEN << >>
  ELSE (IF Head(field) = core.quote THEN EscapedQuote(core) ELSE <<Head(field)>>)
         \o Escaped(Tail(field), core)

EncodeField(field, only, core) ==
  IF NeedsQuote(field, only, core)
  THEN <<core.quote>> \o Escaped(field, core) \o <<core.quote>>
  ELSE field

\* design: the fields of one write_record call, one delimiter between them.
RECURSIVE EncodeFields(_, _, _)
EncodeFields(fields, only, core) ==
  IF fields = << >> THEN << >>
  ELSE EncodeField(Head(fields), only, core)
         \o (IF Len(fields) > 1 THEN <<core.delimiter>> ELSE << >>)
         \o EncodeFields(Tail(fields), only, core)

(* ------------------------- writer operations --------------------------- *)

\* Writer::write_field (writer.rs:194-198): the body is unimplemented!(),
\* which panics; there is no self, so no writer is touched.
write_field(w, field) == [result |-> "panic", writer |-> w]

\* design: the buffer is handed to the sink once it holds capacity bytes.
Buffered(w, bytes) ==
  LET all == w.buf \o bytes IN
  IF Len(all) >= w.capacity
  THEN [buf |-> << >>, chunks |-> <<all>>]
  ELSE [buf |-> all, chunks |-> << >>]

\* write_record that checks the field count after it has reset the state:
\* the mutant of write_record.
write_record_reset_first(w, fields) ==
  LET n == w.state.fields_written + Len(fields) IN
  IF ~w.state.flexible /\ w.expected # None /\ w.expected # Some(n)
  THEN [ result |-> "UnequalLengths",
         writer |-> [w EXCEPT !.expected = Some(n), !.state.fields_written = 0],
         chunks |-> << >> ]
  ELSE LET b == Buffered(w, EncodeFields(fields, Len(fields) = 1, w.core)
                              \o TerminatorBytes(w.core)) IN
       [ result |-> "Ok",
         writer |-> [w EXCEPT !.buf = b.buf,
                              !.expected = IF @ = None THEN Some(n) ELSE @,
                              !.state.fields_written = 0],
         chunks |-> b.chunks ]

\* design: write_record.  The record ends with the fields written so far
\* plus these; a non-flexible writer refuses a count that differs from the
\* established one and is left as it was; otherwise the encoded fields and
\* the terminator are buffered and the first record's count is kept.
write_record(w, fields) ==
  LET n == w.state.fields_written + Len(fields) IN
  IF ~w.state.flexible /\ w.expected # None /\ w.expected # Some(n)
  THEN [result |-> "UnequalLengths", writer |-> w, chunks |-> << >>]
  ELSE LET b == Buffered(w, EncodeFields(fields, Len(fields) = 1, w.core)
                              \o TerminatorBytes(w.core)) IN
       [ result |-> "Ok",
         writer |-> [w EXCEPT !.buf = b.buf,
                              !.expected = IF @ = None THEN Some(n) ELSE @,
                              !.state.fields_written = 0],
         chunks |-> b.chunks ]

\* design: flush hands a non-empty buffer to the sink, whatever its size.
flush(w) ==
  [ result |-> "Ok",
    writer |-> [w EXCEPT !.buf = << >>],
    chunks |-> IF w.buf = << >> THEN << >> ELSE <<w.buf>> ]

(* ----------------------------- history --------------------------------- *)

NoOp == [op |-> "none", result |-> "none", n |-> 0, flushed |-> 0,
         nset |-> 0, pre |-> NoWriter, first |-> None, arg |-> << >>]

Op(name, result, n, flushed, arg) ==
  [op |-> name, result |-> result, n |-> n, flushed |-> flushed,
   nset |-> nSetters, pre |-> writer, first |-> firstCount, arg |-> arg]

(* ------------------------------ actions -------------------------------- *)

Init ==
  /\ builder = Default
  /\ writer = NoWriter
  /\ sink = << >>
  /\ pc = "running"
  /\ built = Default
  /\ firstCount = None
  /\ last = NoOp
  /\ nSetters = 0
  /\ nCalls = 0

Set(b) ==
  /\ pc = "running"
  /\ nSetters < MaxSetterCalls
  /\ builder' = b
  /\ nSetters' = nSetters + 1
  /\ last' = Op("setter", "Ok", 0, 0, << >>)
  /\ UNCHANGED <<writer, sink, pc, built, firstCount, nCalls>>

SetDelimiter == \E d \in DelimiterArgs : Set(delimiter(builder, d))
SetHasHeaders == \E yes \in BOOLEAN : Set(has_headers(builder, yes))
SetFlexible == \E yes \in BOOLEAN : Set(flexible(builder, yes))
SetTerminator == \E t \in TerminatorArgs : Set(terminator(builder, t))
SetQuoteStyle == \E s \in QuoteStyles : Set(quote_style(builder, s))
SetQuote == \E q \in QuoteArgs : Set(quote(builder, q))
SetEscape == \E e \in EscapeArgs : Set(escape(builder, e))
SetDoubleQuote == \E yes \in BOOLEAN : Set(double_quote(builder, yes))
SetBufferCapacity == \E c \in CapacityArgs : Set(buffer_capacity(builder, c))

Build(r, name) ==
  /\ pc = "running"
  /\ writer = NoWriter
  /\ writer' = r.writer
  /\ built' = builder
  /\ last' = Op(name, r.result, 0, 0, << >>)
  /\ UNCHANGED <<builder, sink, pc, firstCount, nSetters, nCalls>>

FromWriter == Build(from_writer(builder), "from_writer")
FromPath == \E created \in BOOLEAN : Build(from_path(builder, created), "from_path")

Flushed(chunks) == IF chunks = << >> THEN 0 ELSE Len(chunks[1])

WriteField ==
  \E field \in Fields :
    LET r == write_field(writer, field) IN
    /\ pc = "running"
    /\ writer # NoWriter
    /\ writer' = r.writer
    /\ pc' = IF r.result = "panic" THEN "panicked" ELSE pc
    /\ last' = Op("write_field", r.result, 1, 0, field)
    /\ UNCHANGED <<builder, sink, built, firstCount, nSetters, nCalls>>

WriteRecord ==
  \E fields \in Records :
    LET r == write_record(writer, fields)
        n == writer.state.fields_written + Len(fields) IN
    /\ pc = "running"
    /\ writer # NoWriter
    /\ nCalls < MaxWriterCalls
    /\ writer' = r.writer
    /\ sink' = sink \o r.chunks
    /\ firstCount' = IF firstCount = None /\ r.result = "Ok" THEN Some(n) ELSE firstCount
    /\ last' = Op("write_record", r.result, n, Flushed(r.chunks), fields)
    /\ nCalls' = nCalls + 1
    /\ UNCHANGED <<builder, pc, built, nSetters>>

Flush ==
  LET r == flush(writer) IN
  /\ pc = "running"
  /\ writer # NoWriter
  /\ nCalls < MaxWriterCalls
  /\ writer' = r.writer
  /\ sink' = sink \o r.chunks
  /\ last' = Op("flush", r.result, 0, Flushed(r.chunks), << >>)
  /\ nCalls' = nCalls + 1
  /\ UNCHANGED <<builder, pc, built, firstCount, nSetters>>

Next ==
  \/ SetDelimiter
  \/ SetHasHeaders
  \/ SetFlexible
  \/ SetTerminator
  \/ SetQuoteStyle
  \/ SetQuote
  \/ SetEscape
  \/ SetDoubleQuote
  \/ SetBufferCapacity
  \/ FromWriter
  \/ FromPath
  \/ WriteField
  \/ WriteRecord
  \/ Flush

Spec == Init /\ [][Next]_vars

(* ------------------------------ claims --------------------------------- *)

HasWriter == writer # NoWriter

\* The bytes the last call appended: what follows the bytes that were
\* buffered before it, in the chunk it handed to the sink or in the buffer.
Emitted ==
  LET all == IF last.flushed > 0 THEN sink[Len(sink)] ELSE writer.buf
  IN SubSeq(all, Len(last.pre.buf) + 1, Len(all))

\* C1: in a writer built with flexible = false, once a first write_record
\* has succeeded with n fields, a write_record of n fields succeeds and a
\* write_record of any other number of fields returns the field-count error.
C1_FieldCountEnforced ==
  (last.op = "write_record" /\ ~built.flexible /\ last.first # None) =>
    IF Some(last.n) = last.first
    THEN last.result = "Ok"
    ELSE last.result = "UnequalLengths"

\* C1 witness: field counts 3, 3, 4 on a non-flexible writer, the third refused.
C1_Witness ==
  /\ last.op = "write_record" /\ ~built.flexible /\ nCalls = 3
  /\ last.first = Some(3) /\ last.n = 4 /\ last.result = "UnequalLengths"
  /\ last.pre.buf # << >>

\* C2 (as claimed): write_field returns a Result, and on success has
\* appended the encoded field and a delimiter and counted one more field.
C2_WriteFieldReturns ==
  last.op = "write_field" =>
    /\ pc = "running"
    /\ last.result \in {"Ok", "IoError"}
    /\ last.result = "Ok" =>
         /\ writer.state.fields_written = last.pre.state.fields_written + 1
         /\ Emitted = EncodeField(last.arg, FALSE, writer.core) \o <<writer.core.delimiter>>

\* C3 (as claimed): building from an inconsistent configuration fails with a
\* configuration error.
C3_ConfigErrorAtConstruction ==
  (last.op \in {"from_writer", "from_path"} /\ Inconsistent(built)) =>
    last.result = "ConfigError"

\* C3 (amended): from_writer always returns a writer, whatever the
\* configuration; from_path fails only when the file cannot be created; no
\* operation ever reports a configuration error.
C3_ConstructionNeverRejects ==
  /\ last.op = "from_writer" => (last.result = "Ok" /\ writer = WriterNew(built))
  /\ last.op = "from_path" =>
       \/ (last.result = "Ok" /\ writer = WriterNew(built))
       \/ (last.result = "IoError" /\ ~HasWriter)
  /\ last.result # "ConfigError"

\* C3 witness: a writer built by from_writer with double quoting off, no
\* escape byte, and the quote byte equal to the delimiter.
C3_Witness ==
  /\ last.op = "from_writer" /\ HasWriter
  /\ ~built.builder.double_quote /\ built.builder.escape = None
  /\ built.builder.quote = built.builder.delimiter

\* C4: a built writer keeps the flexible flag, the has_headers flag, the
\* formatting options and the capacity the builder had when it was built,
\* whatever setters and write operations follow.
C4_ConfigurationFrozen ==
  HasWriter =>
    /\ writer.state.flexible = built.flexible
    /\ writer.state.has_headers = built.has_headers
    /\ writer.core = built.builder
    /\ writer.capacity = built.capacity

\* C4 witness: after the build the builder was changed in two options, and
\* the writer has written a record.
C4_Witness ==
  /\ HasWriter /\ last.op = "write_record" /\ last.result = "Ok"
  /\ builder.flexible # built.flexible
  /\ builder.builder.delimiter # built.builder.delimiter

\* C5: in a writer built with flexible = true every write_record succeeds,
\* whatever its field count.
C5_FlexibleNeverRefuses ==
  (last.op = "write_record" /\ built.flexible) => last.result = "Ok"

\* C5 witness: field counts 3, 3, 4 on a flexible writer, all accepted.
C5_Witness ==
  /\ last.op = "write_record" /\ built.flexible /\ nCalls = 3
  /\ last.first = Some(3) /\ last.n = 4 /\ last.result = "Ok"
  /\ last.pre.buf # << >>

\* C6 (as claimed): after write_field calls the writer holds an in-progress
\* record of k >= 1 fields, which write_record with no fields ends: the
\* terminator is emitted, the field-count check is applied to k, and the
\* in-progress counter is back at 0.
C6_EndOfRecordAfterFields ==
  last.op = "write_field" =>
    /\ pc = "running"
    /\ writer.state.fields_written >= 1
    /\ LET k == writer.state.fields_written
           r == write_record(writer, << >>)
           refused == ~writer.state.flexible /\ writer.expected # None
                        /\ writer.expected # Some(k)
       IN IF refused
          THEN r.result = "UnequalLengths"
          ELSE /\ r.result = "Ok"
               /\ r.writer.state.fields_written = 0
               /\ r.writer.buf \o (IF r.chunks = << >> THEN << >> ELSE r.chunks[1])
                    = writer.buf \o TerminatorBytes(writer.core)

C9_Defaults ==
  /\ nSetters = 0 =>
       /\ builder.flexible = FALSE
       /\ builder.has_headers = TRUE
       /\ builder.capacity = 8192
  /\ (last.op \in {"from_writer", "from_path"} /\ last.result = "Ok" /\ last.nset = 0) =>
       /\ writer.state.flexible = FALSE
       /\ writer.state.has_headers = TRUE
       /\ writer.capacity = 8192
       /\ writer.state.fields_written = 0

\* C9 witness: a writer just built from an untouched builder.
C9_Witness ==
  /\ last.op = "from_writer" /\ last.result = "Ok" /\ last.nset = 0
  /\ HasWriter

\* C10: a write_record refused for its field count leaves the expected field
\* count, the in-progress counter and the header flag as they were, and a
\* write_record with the established count still succeeds after it.
C10_RefusalLeavesState ==
  (last.op = "write_record" /\ last.result = "UnequalLengths") =>
    /\ writer.expected = last.pre.expected
    /\ writer.state = last.pre.state
    /\ \A fields \in Records :
         Some(writer.state.fields_written + Len(fields)) = last.first =>
           write_record(writer, fields).result = "Ok"

\* C10 witness: a refused record after which a record of the established
\* count exists to be written.
C10_Witness ==
  /\ last.op = "write_record" /\ last.result = "UnequalLengths"
  /\ \E fields \in Records : Some(Len(fields)) = last.first

====
